---- MODULE Spec2Model ----
(***************************************************************************)
(* Model of hoard (src/src/hoard.py): the Trove mapping held by a Hoard    *)
(* object, the store file it is saved to, and the operations of the        *)
(* command surface.                                                        *)
(*                                                                         *)
(* Python values are tagged records; a str is a sequence of one-character  *)
(* strings, a dict is the sequence of its <<key, value>> items in          *)
(* insertion order.  JSON text is a separate tagged tree: json.dump and    *)
(* json.load are the conversions between the two.                          *)
(***************************************************************************)
EXTENDS Integers, Sequences, FiniteSets, TLC

VARIABLES commands, trove_file, last, ret, wrote, config_file, parameter_token, procs

vars == <<commands, trove_file, last, ret, wrote, config_file, parameter_token, procs>>

\* what the operations on the entry store leave alone: the settings, and the
\* invocations running beside this one
settings == <<config_file, parameter_token>>

(***************************************************************************)
(* Bounds                                                                  *)
(***************************************************************************)
MaxEntries == 2

(***************************************************************************)
(* Python values                                                           *)
(***************************************************************************)
PyStr(s) == [t |-> "str", s |-> s]
PyInt(i) == [t |-> "int", i |-> i]
PyNone == [t |-> "none"]
PyList(xs) == [t |-> "list", xs |-> xs]
PyDict(kv) == [t |-> "dict", kv |-> kv]

\* Exceptions are values too: the operators that can raise return one.
Raised(e) == [t |-> "raise", e |-> e]
IsRaised(v) == v.t = "raise"

K_tags == <<"t", "a", "g", "s">>
K_command == <<"c", "o", "m", "m", "a", "n", "d">>
K_description == <<"d", "e", "s", "c", "r", "i", "p", "t", "i", "o", "n">>
K_name == <<"n", "a", "m", "e">>

\* str, int and None are hashable; list and dict are not.
Hashable(v) == v.t \in {"str", "int", "none"}

\* str.lower() on the characters of the model's alphabet
LowerChar(c) ==
    CASE c = "F" -> "f"
      [] c = "G" -> "g"
      [] c = "X" -> "x"
      [] c = "Z" -> "z"
      [] OTHER -> c

Lower(s) == [i \in 1..Len(s) |-> LowerChar(s[i])]

\* a in b, for two str
Contains(a, b) ==
    \E i \in 0..(Len(b) - Len(a)) : \A j \in 1..Len(a) : b[i + j] = a[j]

\* b.startswith(a)
StartsWith(b, a) ==
    /\ Len(a) <= Len(b)
    /\ \A j \in 1..Len(a) : b[j] = a[j]

(***************************************************************************)
(* dict: items in insertion order, one item per key                        *)
(***************************************************************************)
HasKey(kv, k) == \E i \in 1..Len(kv) : kv[i][1] = k

KeyIndex(kv, k) == CHOOSE i \in 1..Len(kv) : kv[i][1] = k

\* d.get(k): the value, or None
DictGet(kv, k) == IF HasKey(kv, k) THEN kv[KeyIndex(kv, k)][2] ELSE PyNone

\* d[k] = v: an existing key keeps its position, a new key goes last
DictSet(kv, k, v) ==
    IF HasKey(kv, k)
    THEN [i \in 1..Len(kv) |-> IF kv[i][1] = k THEN <<k, v>> ELSE kv[i]]
    ELSE Append(kv, <<k, v>>)

\* d.pop(k, None)
DictPop(kv, k) == SelectSeq(kv, LAMBDA it : it[1] # k)

Keys(kv) == {kv[i][1] : i \in 1..Len(kv)}

(***************************************************************************)
(* JSON text and files                                                     *)
(***************************************************************************)
JObject(ms) == [j |-> "object", ms |-> ms]
JArray(es) == [j |-> "array", es |-> es]
JString(s) == [j |-> "string", s |-> s]
JNumber(n) == [j |-> "number", n |-> n]
JNull == [j |-> "null"]

Absent == [f |-> "absent"]
Garbage == [f |-> "garbage"]
JsonFile(doc) == [f |-> "json", doc |-> doc]

Digits == <<"0", "1", "2", "3", "4", "5", "6", "7", "8", "9">>

\* json.dump writes a dict key that is not a str as the text of its value
KeyText(k) ==
    CASE k.t = "str" -> k.s
      [] k.t = "int" -> <<Digits[k.i + 1]>>
      [] k.t = "none" -> <<"n", "u", "l", "l">>

RECURSIVE Dumps(_)
Dumps(v) ==
    CASE v.t = "dict" ->
           JObject([i \in 1..Len(v.kv) |->
                      <<KeyText(v.kv[i][1]), Dumps(v.kv[i][2])>>])
      [] v.t = "list" -> JArray([i \in 1..Len(v.xs) |-> Dumps(v.xs[i])])
      [] v.t = "str" -> JString(v.s)
      [] v.t = "int" -> JNumber(v.i)
      [] v.t = "none" -> JNull

\* dict built from the members of a JSON object, in order: a repeated key
\* keeps its first position and takes its last value
RECURSIVE FromPairs(_, _)
FromPairs(kv, ps) ==
    IF ps = <<>> THEN kv
    ELSE FromPairs(DictSet(kv, ps[1][1], ps[1][2]), Tail(ps))

RECURSIVE Loads(_)
Loads(d) ==
    CASE d.j = "object" ->
           PyDict(FromPairs(<<>>, [i \in 1..Len(d.ms) |->
                                     <<PyStr(d.ms[i][1]), Loads(d.ms[i][2])>>]))
      [] d.j = "array" -> PyList([i \in 1..Len(d.es) |-> Loads(d.es[i])])
      [] d.j = "string" -> PyStr(d.s)
      [] d.j = "number" -> PyInt(d.n)
      [] d.j = "null" -> PyNone

\* open(path, 'r') followed by json.load
ReadJson(file) ==
    CASE file.f = "absent" -> Raised("FileNotFoundError")
      [] file.f = "garbage" -> Raised("JSONDecodeError")
      [] file.f = "json" -> Loads(file.doc)

(***************************************************************************)
(* Trove                                                                   *)
(***************************************************************************)
Entry(tags, command, description) ==
    PyDict(<< <<PyStr(K_tags), tags>>,
              <<PyStr(K_command), command>>,
              <<PyStr(K_description), description>> >>)

\* add_command with setdefault in place of the assignment
add_command_keep(kv, name, tags, command, description) ==
    IF HasKey(kv, name) THEN kv
    ELSE Append(kv, <<name, Entry(tags, command, description)>>)

\* Trove.add_command
add_command(kv, name, tags, command, description) ==
    DictSet(kv, name, Entry(tags, command, description))

\* Trove.get_command
get_command(kv, name) == DictGet(kv, name)

\* remove_command with popitem() in place of pop(name, None)
remove_command_popitem(kv, name) == SubSeq(kv, 1, Len(kv) - 1)

\* Trove.remove_command
remove_command(kv, name) == DictPop(kv, name)

\* Trove.remove_namespace: the comprehension calls k.startswith on every
\* key; a key that is not a str raises and self.commands is not assigned.
remove_namespace(kv, namespace) ==
    IF \E i \in 1..Len(kv) : kv[i][1].t # "str"
    THEN Raised("AttributeError")
    ELSE PyList(SelectSeq(kv, LAMBDA it : ~StartsWith(it[1].s, namespace.s)))

\* truth value of a Python object
Truthy(v) ==
    CASE v.t = "dict" -> v.kv # <<>>
      [] v.t = "list" -> v.xs # <<>>
      [] v.t = "str" -> v.s # <<>>
      [] v.t = "int" -> v.i # 0
      [] v.t = "none" -> FALSE

\* the elements a for loop sees
Iter(v) ==
    CASE v.t = "list" -> PyList(v.xs)
      [] v.t = "str" -> PyList([i \in 1..Len(v.s) |-> PyStr(<<v.s[i]>>)])
      [] v.t = "dict" -> PyList([i \in 1..Len(v.kv) |-> v.kv[i][1]])
      [] OTHER -> Raised("TypeError")

\* any(f.lower() in tag.lower() for tag in xs): stops at the first match
RECURSIVE AnyTag(_, _)
AnyTag(f, xs) ==
    IF xs = <<>> THEN "no"
    ELSE IF xs[1].t # "str" THEN "AttributeError"
    ELSE IF Contains(Lower(f), Lower(xs[1].s)) THEN "yes"
    ELSE AnyTag(f, Tail(xs))

\* the condition of the filtering comprehension: "yes", "no" or the
\* exception it raises
Matches(f, name, cmd) ==
    IF name.t # "str" THEN "AttributeError"
    ELSE IF Contains(Lower(f), Lower(name.s)) THEN "yes"
    ELSE IF cmd.t # "dict" THEN "TypeError"
    ELSE IF ~HasKey(cmd.kv, PyStr(K_tags)) THEN "KeyError"
    ELSE LET it == Iter(DictGet(cmd.kv, PyStr(K_tags)))
         IN  IF IsRaised(it) THEN it.e ELSE AnyTag(f, it.xs)

\* {"name": name, **cmd}
ListRecord(name, cmd) ==
    IF cmd.t = "dict"
    THEN PyDict(FromPairs(<< <<PyStr(K_name), name>> >>, cmd.kv))
    ELSE Raised("TypeError")

\* the comprehension over self.commands.items(), item by item; acc is the
\* list built so far.  filtering is FALSE in the else branch.
RECURSIVE Collect(_, _, _, _)
Collect(kv, filtering, f, acc) ==
    IF kv = <<>> THEN PyList(acc)
    ELSE LET name == kv[1][1]
             cmd == kv[1][2]
             m == IF filtering THEN Matches(f, name, cmd) ELSE "yes"
         IN  IF m = "no" THEN Collect(Tail(kv), filtering, f, acc)
             ELSE IF m # "yes" THEN Raised(m)
             ELSE LET r == ListRecord(name, cmd)
                  IN  IF IsRaised(r) THEN r
                      ELSE Collect(Tail(kv), filtering, f, Append(acc, r))

\* "\n".join(cmd["name"] for cmd in commands)
SimpleLines(recs) ==
    IF \E i \in 1..Len(recs) : DictGet(recs[i].kv, PyStr(K_name)).t # "str"
    THEN Raised("TypeError")
    ELSE [t |-> "lines",
          xs |-> [i \in 1..Len(recs) |-> DictGet(recs[i].kv, PyStr(K_name)).s]]

\* Trove.list_commands
list_commands(kv, filter_str, json_output, simple_output) ==
    LET f == IF filter_str.t = "str" THEN filter_str.s ELSE <<>>
        cs == Collect(kv, Truthy(filter_str), f, <<>>)
    IN  IF IsRaised(cs) THEN cs
        ELSE IF json_output THEN [t |-> "text", doc |-> Dumps(cs)]
        ELSE IF simple_output THEN SimpleLines(cs.xs)
        ELSE cs

\* Trove.save_trove_file: the file written
save_trove_file(kv) == JsonFile(Dumps(PyDict(kv)))

\* dict.update(other), element by element: the mapping reached and the
\* exception that stopped it ("none" when it ran to the end)
RECURSIVE UpdateSeq(_, _)
UpdateSeq(kv, es) ==
    IF es = <<>> THEN [kv |-> kv, exc |-> "none"]
    ELSE LET e == es[1]
             it == Iter(e)
         IN  IF IsRaised(it) THEN [kv |-> kv, exc |-> "TypeError"]
             ELSE IF Len(it.xs) # 2 THEN [kv |-> kv, exc |-> "ValueError"]
             ELSE IF ~Hashable(it.xs[1]) THEN [kv |-> kv, exc |-> "TypeError"]
             ELSE UpdateSeq(DictSet(kv, it.xs[1], it.xs[2]), Tail(es))

\* update that leaves the entries of the names already present alone
Update_keep(kv, other) ==
    IF other.t = "dict"
    THEN [kv |-> FromPairs(kv, SelectSeq(other.kv, LAMBDA it : ~HasKey(kv, it[1]))),
          exc |-> "none"]
    ELSE LET it == Iter(other)
         IN  IF IsRaised(it) THEN [kv |-> kv, exc |-> "TypeError"]
             ELSE UpdateSeq(kv, it.xs)

Update(kv, other) ==
    IF other.t = "dict" THEN [kv |-> FromPairs(kv, other.kv), exc |-> "none"]
    ELSE LET it == Iter(other)
         IN  IF IsRaised(it) THEN [kv |-> kv, exc |-> "TypeError"]
             ELSE UpdateSeq(kv, it.xs)

(***************************************************************************)
(* Inputs                                                                  *)
(***************************************************************************)
S_fo == <<"f", "o">>
S_xfo == <<"x", "f", "o">>
S_Fox == <<"F", "o", "x">>

Names == {PyStr(S_fo), PyStr(S_xfo), PyStr(S_Fox)}

\* the arguments of new: --tags takes one or more values, and without the
\* option args.tags is None
NewArgs ==
    {<<PyNone, PyStr(<<"k">>), PyStr(<<"d">>)>>,
     <<PyList(<<PyStr(<<"z">>), PyStr(<<"G", "x">>)>>), PyStr(<<"l">>), PyStr(<<"e">>)>>,
     <<PyList(<<PyStr(<<"z">>)>>), PyStr(<<"k">>), PyStr(<<"e">>)>>}

NamespaceArgs == {PyStr(<<>>), PyStr(<<"f">>), PyStr(<<"F", "o">>), PyStr(<<"x">>)}

FilterArgs == {PyNone, PyStr(<<>>), PyStr(<<"G">>), PyStr(<<"X">>)}

\* --filter, --json, --simple
ListArgs ==
    {<<PyNone, FALSE, FALSE>>, <<PyStr(<<>>), TRUE, FALSE>>,
     <<PyStr(<<"G">>), FALSE, FALSE>>, <<PyStr(<<"G">>), FALSE, TRUE>>,
     <<PyStr(<<"X">>), FALSE, FALSE>>, <<PyStr(<<"X">>), TRUE, TRUE>>}

J_entry == Dumps(Entry(PyList(<<PyStr(<<"z">>)>>), PyStr(<<"k">>), PyStr(<<"e">>)))
J_other == Dumps(Entry(PyNone, PyStr(<<"k">>), PyStr(<<"d">>)))

\* contents of the file named by import's path
ImportFiles ==
    {Absent, Garbage,
     JsonFile(JNumber(5)),
     JsonFile(JString(<<>>)),
     JsonFile(JObject(<< <<S_fo, J_entry>> >>)),
     JsonFile(JObject(<< <<S_xfo, JNumber(5)>>, <<S_fo, J_other>> >>)),
     JsonFile(JObject(<< <<S_Fox, J_entry>>, <<S_Fox, J_other>> >>)),
     JsonFile(JArray(<< JArray(<<JString(S_xfo), J_entry>>),
                        JArray(<<JString(S_fo), J_other>>) >>)),
     JsonFile(JArray(<< JArray(<<JString(S_fo), J_entry>>), JNumber(5) >>)),
     JsonFile(JArray(<< JArray(<<JNumber(1), J_entry>>) >>))}

\* what the editor can leave in the scratch file, besides leaving it as is
EditedFiles == {Garbage, JsonFile(JNumber(5)), JsonFile(J_entry)}

(***************************************************************************)
(* Hoard                                                                   *)
(***************************************************************************)
Did(op, name, arg, out) == [op |-> op, name |-> name, arg |-> arg, out |-> out]

\* Hoard.with_config: config.trove_path is <hoard_home>/trove.json
trove_path == PyStr(<<"t", "r", "o", "v", "e">>)

\* save_trove that finds no path to save to
save_trove_unset(kv, store) == store

\* Hoard.save_trove: the store file after the call; it is written when a
\* path is set
save_trove(kv, store) ==
    IF Truthy(trove_path) THEN save_trove_file(kv) ELSE store

\* Hoard.new_command
NewCommand ==
    \E name \in Names, a \in NewArgs :
      LET tags == a[1]
          command == a[2]
          description == a[3]
      IN
        /\ HasKey(commands, name) \/ Len(commands) < MaxEntries
        /\ commands' = add_command(commands, name, tags, command, description)
        /\ trove_file' = save_trove(commands', trove_file)
        /\ wrote' = TRUE
        /\ last' = Did("new", name, PyList(<<tags, command, description>>), "added")
        /\ ret' = PyNone
        /\ UNCHANGED <<settings, procs>>

\* remove_command that saves whether or not the name was stored
RemoveCommand_saves ==
    \E name \in Names :
        /\ commands' = remove_command(commands, name)
        /\ trove_file' = save_trove(commands', trove_file)
        /\ wrote' = TRUE
        /\ last' = Did("remove", name, PyNone,
                       IF HasKey(commands, name) THEN "removed" ELSE "not_found")
        /\ ret' = PyNone
        /\ UNCHANGED <<settings, procs>>

\* Hoard.remove_command
RemoveCommand ==
    \E name \in Names :
        /\ IF HasKey(commands, name)
           THEN /\ commands' = remove_command(commands, name)
                /\ trove_file' = save_trove(commands', trove_file)
                /\ wrote' = TRUE
                /\ last' = Did("remove", name, PyNone, "removed")
           ELSE /\ UNCHANGED <<commands, trove_file>>
                /\ wrote' = FALSE
                /\ last' = Did("remove", name, PyNone, "not_found")
        /\ ret' = PyNone
        /\ UNCHANGED <<settings, procs>>

\* Hoard.remove_namespace
RemoveNamespace ==
    \E namespace \in NamespaceArgs :
        LET r == remove_namespace(commands, namespace)
        IN  /\ IF IsRaised(r)
               THEN /\ UNCHANGED <<commands, trove_file>>
                    /\ wrote' = FALSE
                    /\ last' = Did("remove_namespace", namespace, PyNone, "error")
               ELSE /\ commands' = r.xs
                    /\ trove_file' = save_trove(commands', trove_file)
                    /\ wrote' = TRUE
                    /\ last' = Did("remove_namespace", namespace, PyNone,
                                   "removed_namespace")
            /\ ret' = PyNone
            /\ UNCHANGED <<settings, procs>>

\* Hoard.list_commands
ListCommands ==
    \E a \in ListArgs :
        LET filter_str == a[1]
            json_output == a[2]
            simple_output == a[3]
            r == list_commands(commands, filter_str, json_output, simple_output)
        IN  /\ ret' = r
            /\ last' = Did("list", PyNone,
                           [filter_str |-> filter_str, json_output |-> json_output,
                            simple_output |-> simple_output],
                           IF IsRaised(r) THEN "error" ELSE "listed")
            /\ wrote' = FALSE
            /\ UNCHANGED <<commands, trove_file, settings, procs>>

\* import_trove that falls back to an empty trove when the file cannot be
\* read, as load_trove_file does
import_trove_reset(kv, store, file) ==
    LET imported_trove == ReadJson(file)
    IN  IF IsRaised(imported_trove)
        THEN [kv |-> <<>>, store |-> store,
              out |-> IF imported_trove.e = "FileNotFoundError"
                      THEN "file_not_found" ELSE "invalid_json"]
        ELSE LET u == Update(kv, imported_trove)
             IN  IF u.exc # "none"
                 THEN [kv |-> u.kv, store |-> store, out |-> "error"]
                 ELSE [kv |-> u.kv, store |-> save_trove(u.kv, store), out |-> "imported"]

\* the body of Hoard.import_trove on the file at path: the mapping it
\* leaves in memory, the store file it leaves, and how it ended
import_trove(kv, store, file) ==
    LET imported_trove == ReadJson(file)
    IN  IF IsRaised(imported_trove)
        THEN [kv |-> kv, store |-> store,
              out |-> IF imported_trove.e = "FileNotFoundError"
                      THEN "file_not_found" ELSE "invalid_json"]
        ELSE LET u == Update(kv, imported_trove)
             IN  IF u.exc # "none"
                 THEN [kv |-> u.kv, store |-> store, out |-> "error"]
                 ELSE [kv |-> u.kv, store |-> save_trove(u.kv, store), out |-> "imported"]

\* Hoard.import_trove
ImportTrove ==
    \E file \in ImportFiles :
        LET r == import_trove(commands, trove_file, file)
        IN  /\ Len(r.kv) <= MaxEntries
            /\ commands' = r.kv
            /\ trove_file' = r.store
            /\ wrote' = (r.out = "imported")
            /\ last' = Did("import", PyNone, file, r.out)
            /\ ret' = PyNone
            /\ UNCHANGED <<settings, procs>>

\* export_command that writes only the records that are objects
export_command_objects(kv) ==
    JsonFile(Dumps(PyDict(SelectSeq(kv, LAMBDA it : it[2].t = "dict"))))

\* the file Hoard.export_command writes at path
export_command(kv) == JsonFile(Dumps(PyDict(kv)))

\* Hoard.export_command; open(path, 'w') can fail with IOError
ExportCommand ==
    \E writable \in BOOLEAN :
        /\ last' = IF writable
                   THEN Did("export", PyNone, export_command(commands), "exported")
                   ELSE Did("export", PyNone, Absent, "io_error")
        /\ ret' = PyNone
        /\ wrote' = FALSE
        /\ UNCHANGED <<commands, trove_file, settings, procs>>

\* Hoard.edit_command; edited is the scratch file when the editor exits
EditCommand ==
    \E name \in Names :
        LET command == get_command(commands, name)
        IN  /\ IF Truthy(command)
               THEN \E edited \in EditedFiles \cup {JsonFile(Dumps(command))} :
                      LET updated_command == ReadJson(edited)
                      IN  IF IsRaised(updated_command)
                          THEN /\ UNCHANGED <<commands, trove_file>>
                               /\ wrote' = FALSE
                               /\ last' = Did("edit", name, edited, "error")
                          ELSE /\ commands' = DictSet(commands, name, updated_command)
                               /\ trove_file' = save_trove(commands', trove_file)
                               /\ wrote' = TRUE
                               /\ last' = Did("edit", name, edited, "updated")
               ELSE /\ UNCHANGED <<commands, trove_file>>
                    /\ wrote' = FALSE
                    /\ last' = Did("edit", name, PyNone, "not_found")
            /\ ret' = PyNone
            /\ UNCHANGED <<settings, procs>>

\* the body of Hoard.pick_command: the value returned and what was printed
pick_command(kv, name) ==
    LET command == get_command(kv, name)
    IN  IF Truthy(command)
        THEN IF command.t # "dict" THEN [ret |-> Raised("TypeError"), out |-> "error"]
             ELSE IF ~HasKey(command.kv, PyStr(K_command))
             THEN [ret |-> Raised("KeyError"), out |-> "error"]
             ELSE [ret |-> DictGet(command.kv, PyStr(K_command)), out |-> "picked"]
        ELSE [ret |-> PyStr(<<>>), out |-> "not_found"]

\* Hoard.pick_command
PickCommand ==
    \E name \in Names :
        LET r == pick_command(commands, name)
        IN  /\ ret' = r.ret
            /\ last' = Did("pick", name, PyNone, r.out)
            /\ wrote' = FALSE
            /\ UNCHANGED <<commands, trove_file, settings, procs>>

\* Hoard.show_info: prints the trove path and the number of commands
ShowInfo ==
    /\ last' = Did("info", trove_path, PyInt(Len(commands)), "info")
    /\ ret' = PyNone
    /\ wrote' = FALSE
    /\ UNCHANGED <<commands, trove_file, settings, procs>>

Shells ==
    {PyStr(<<"b", "a", "s", "h">>), PyStr(<<"z", "s", "h">>),
     PyStr(<<"f", "i", "s", "h">>), PyStr(<<"c", "s", "h">>)}

\* Hoard.shell_config_command
ShellConfigCommand ==
    \E shell \in Shells :
        /\ last' = Did("shell-config", PyNone, shell,
                       IF shell \in {PyStr(<<"b", "a", "s", "h">>), PyStr(<<"z", "s", "h">>),
                                     PyStr(<<"f", "i", "s", "h">>)}
                       THEN "snippet" ELSE "unsupported")
        /\ ret' = PyNone
        /\ wrote' = FALSE
        /\ UNCHANGED <<commands, trove_file, settings, procs>>

Init ==
    /\ commands = <<>>
    /\ trove_file = Absent
    /\ last = [op |-> "init", name |-> PyNone, arg |-> PyNone, out |-> "none"]
    /\ ret = PyNone
    /\ wrote = FALSE
    /\ config_file = Absent
    /\ parameter_token = PyNone
    /\ procs = <<>>

Next ==
    \/ NewCommand
    \/ RemoveCommand
    \/ RemoveNamespace
    \/ ListCommands
    \/ ImportTrove
    \/ ExportCommand
    \/ EditCommand
    \/ PickCommand
    \/ ShowInfo
    \/ ShellConfigCommand

Spec == Init /\ [][Next]_vars

(***************************************************************************)
(* Settings                                                                *)
(***************************************************************************)
K_parameter_token ==
    <<"p", "a", "r", "a", "m", "e", "t", "e", "r", "_", "t", "o", "k", "e", "n">>

K_editor == <<"e", "d", "i", "t", "o", "r">>

Tokens == {PyStr(<<"$">>), PyStr(<<"#">>)}

\* contents of <hoard_home>/config.json that the program did not write
\* itself
ConfigFiles ==
    {Absent, Garbage,
     JsonFile(JArray(<<>>)),
     JsonFile(JObject(<< <<K_editor, JString(<<"v", "i">>)>> >>)),
     JsonFile(JObject(<< <<K_parameter_token, JString(<<"@">>)>>,
                         <<K_editor, JNumber(1)>> >>))}

\* Hoard._load_config: the token after the call, or the exception
load_config(file, token) ==
    IF file.f = "absent" THEN [token |-> token, exc |-> "none"]
    ELSE LET config == ReadJson(file)
         IN  IF IsRaised(config) THEN [token |-> token, exc |-> config.e]
             ELSE IF config.t # "dict"
             THEN [token |-> token, exc |-> "AttributeError"]
             ELSE [token |-> DictGet(config.kv, PyStr(K_parameter_token)),
                   exc |-> "none"]

\* set_parameter_token that starts from an empty config whatever the file
\* holds
set_parameter_token_fresh(file, token) ==
    [file |-> JsonFile(Dumps(PyDict(<< <<PyStr(K_parameter_token), token>> >>))),
     exc |-> "none"]

\* Hoard.set_parameter_token: the settings file after the call, and the
\* exception when it raises
set_parameter_token(file, token) ==
    LET config == IF file.f = "absent" THEN PyDict(<<>>) ELSE ReadJson(file)
    IN  IF IsRaised(config) THEN [file |-> file, exc |-> config.e]
        ELSE IF config.t # "dict" THEN [file |-> file, exc |-> "TypeError"]
        ELSE [file |-> JsonFile(Dumps(PyDict(DictSet(config.kv,
                                                     PyStr(K_parameter_token),
                                                     token)))),
              exc |-> "none"]

\* Hoard.set_parameter_token
SetParameterToken ==
    \E token \in Tokens :
        LET r == set_parameter_token(config_file, token)
        IN  /\ parameter_token' = token
            /\ config_file' = r.file
            /\ last' = Did("set-parameter-token", PyNone, token,
                           IF r.exc = "none" THEN "set" ELSE "error")
            /\ ret' = IF r.exc = "none" THEN PyNone ELSE Raised(r.exc)
            /\ wrote' = FALSE
            /\ UNCHANGED <<commands, trove_file, procs>>

\* Hoard._load_config on its own; an exception leaves the token as it was
LoadConfig ==
    LET r == load_config(config_file, parameter_token)
    IN  /\ parameter_token' = r.token
        /\ last' = Did("load_config", PyNone, PyNone,
                       IF r.exc = "none" THEN "loaded" ELSE "error")
        /\ ret' = IF r.exc = "none" THEN PyNone ELSE Raised(r.exc)
        /\ wrote' = FALSE
        /\ UNCHANGED <<commands, trove_file, config_file, procs>>

\* the settings file is edited by hand between two calls
WriteConfigFile ==
    \E file \in ConfigFiles :
        /\ config_file' = file
        /\ last' = Did("external", PyNone, file, "config")
        /\ ret' = PyNone
        /\ wrote' = FALSE
        /\ UNCHANGED <<commands, trove_file, parameter_token, procs>>

\* stores the program can hold when the settings are changed
InitConfig ==
    /\ commands \in {<<>>,
                     add_command(<<>>, PyStr(S_fo), PyNone, PyStr(<<"k">>),
                                 PyStr(<<"d">>)),
                     add_command(<<>>, PyStr(S_xfo), PyList(<<PyStr(<<"z">>)>>),
                                 PyStr(<<"l">>), PyStr(<<"e">>))}
    /\ trove_file = IF commands = <<>> THEN Absent ELSE save_trove_file(commands)
    /\ last = [op |-> "init", name |-> PyNone, arg |-> PyNone, out |-> "none"]
    /\ ret = PyNone
    /\ wrote = FALSE
    /\ config_file = Absent
    /\ parameter_token = PyNone
    /\ procs = <<>>

NextConfig ==
    \/ SetParameterToken
    \/ LoadConfig
    \/ WriteConfigFile

SpecConfig == InitConfig /\ [][NextConfig]_vars

(***************************************************************************)
(* main: one invocation of the program after another                       *)
(***************************************************************************)
J_nocommand == Dumps(Entry(PyList(<<>>), PyNone, PyStr(<<"d">>)))

\* contents of <hoard_home>/trove.json that the program did not write in the
\* run at hand
StoreFiles ==
    {Absent, Garbage,
     JsonFile(JNumber(5)),
     JsonFile(JArray(<<>>)),
     JsonFile(JObject(<< <<S_fo, J_entry>> >>)),
     JsonFile(JObject(<< <<S_xfo, JNumber(5)>>, <<S_fo, J_other>> >>)),
     JsonFile(JObject(<< <<S_fo, J_nocommand>> >>))}

\* Trove.load_trove_file: the mapping of the store returned, or the
\* exception that leaves the method (data.items() of a value that is not a
\* dict)
load_trove_file(file) ==
    LET data == ReadJson(file)
    IN  IF IsRaised(data) THEN [kv |-> <<>>, exc |-> "none"]
        ELSE IF data.t # "dict" THEN [kv |-> <<>>, exc |-> "AttributeError"]
        ELSE [kv |-> SelectSeq(data.kv, LAMBDA it : it[2].t = "dict"),
              exc |-> "none"]

\* no invocation is running
Between ==
    \/ last.op \in {"init", "exit", "external"}
    \/ last.op = "load" /\ last.out # "loaded"

\* main, up to the call of start: Hoard().with_config(None).load_trove();
\* nothing catches what load_trove raises
Load ==
    /\ Between
    /\ LET t == load_trove_file(trove_file)
           c == load_config(config_file, PyNone)
       IN  /\ commands' = t.kv
           /\ parameter_token' = IF t.exc = "none" THEN c.token ELSE PyNone
           /\ last' = Did("load", PyNone, PyNone,
                          IF t.exc # "none" THEN "crash_load_trove_file"
                          ELSE IF c.exc # "none" THEN "crash_load_config"
                          ELSE "loaded")
           /\ ret' = IF t.exc # "none" THEN Raised(t.exc)
                     ELSE IF c.exc # "none" THEN Raised(c.exc)
                     ELSE PyNone
    /\ wrote' = FALSE
    /\ UNCHANGED <<trove_file, config_file, procs>>

\* Hoard.start: the operation named on the command line, on the store just
\* loaded
Start ==
    /\ last.op = "load" /\ last.out = "loaded"
    /\ \/ ShowInfo
       \/ NewCommand
       \/ RemoveCommand
       \/ PickCommand

\* main, after start has returned: print(command.strip()).  start returns
\* what pick_command returned, and "" when the operation was another one or
\* raised inside the try.
Exit ==
    /\ last.op \in {"info", "new", "remove", "pick"}
    /\ LET command == IF last.op = "pick" /\ ~IsRaised(ret) THEN ret ELSE PyStr(<<>>)
       IN  /\ last' = Did("exit", PyNone, command,
                          IF command.t = "str" THEN "exited" ELSE "crash_strip")
           /\ ret' = IF command.t = "str" THEN PyNone ELSE Raised("AttributeError")
    /\ wrote' = FALSE
    /\ UNCHANGED <<commands, trove_file, settings, procs>>

\* the store file is replaced between two invocations: edited by hand,
\* restored from a copy, written by another program
WriteStoreFile ==
    /\ Between
    /\ \E file \in StoreFiles :
           /\ trove_file' = file
           /\ last' = Did("external", PyNone, file, "store")
    /\ ret' = PyNone
    /\ wrote' = FALSE
    /\ UNCHANGED <<commands, settings, procs>>

NextMain ==
    \/ Load
    \/ Start
    \/ Exit
    \/ WriteStoreFile
    \/ Between /\ WriteConfigFile

SpecMain == Init /\ [][NextMain]_vars

(***************************************************************************)
(* Two invocations on one store file; save_trove_file step by step         *)
(***************************************************************************)
RECURSIVE Sum(_)
Sum(ns) == IF ns = <<>> THEN 0 ELSE Head(ns) + Sum(Tail(ns))

\* the number of characters json.dump(v, f, indent=2) writes for v, nested
\* depth levels deep
RECURSIVE TextLen(_, _)
TextLen(d, depth) ==
    CASE d.j = "object" ->
           IF d.ms = <<>> THEN 2
           ELSE 1 + Sum([i \in 1..Len(d.ms) |->
                           1 + 2 * (depth + 1) + Len(d.ms[i][1]) + 4
                             + TextLen(d.ms[i][2], depth + 1)])
                  + (Len(d.ms) - 1) + 1 + 2 * depth + 1
      [] d.j = "array" ->
           IF d.es = <<>> THEN 2
           ELSE 1 + Sum([i \in 1..Len(d.es) |->
                           1 + 2 * (depth + 1) + TextLen(d.es[i], depth + 1)])
                  + (Len(d.es) - 1) + 1 + 2 * depth + 1
      [] d.j = "string" -> Len(d.s) + 2
      [] d.j = "number" -> IF d.n < 10 THEN 1 ELSE 2
      [] d.j = "null" -> 4

\* a file of n characters that is not one JSON document: cut short, or a
\* document followed by the rest of a longer one
Torn(n) == [f |-> "garbage", n |-> n]

FileLen(file) ==
    CASE file.f = "absent" -> 0
      [] file.f = "garbage" -> file.n
      [] file.f = "json" -> TextLen(file.doc, 0)

Procs == {1, 2}

ProcNames == {PyStr(S_fo), PyStr(S_xfo)}

ProcArgs ==
    {<<PyNone, PyStr(<<"k">>), PyStr(<<"d">>)>>,
     <<PyList(<<PyStr(<<"z">>)>>), PyStr(<<"k">>), PyStr(<<"e">>)>>}

At(p, pc) == procs[p].pc = pc

\* main: Hoard().with_config(None).load_trove(), in invocation p
P_Load(p) ==
    /\ At(p, "start")
    /\ LET t == load_trove_file(trove_file)
       IN  procs' = [procs EXCEPT ![p] =
                        IF t.exc = "none"
                        THEN [pc |-> "loaded", commands |-> t.kv]
                        ELSE [pc |-> "start", commands |-> <<>>]]
    /\ UNCHANGED <<commands, trove_file, last, ret, wrote, settings>>

\* Hoard.new_command up to the call of save_trove: Trove.add_command
P_New(p) ==
    /\ At(p, "loaded")
    /\ \E name \in ProcNames, a \in ProcArgs :
           /\ HasKey(procs[p].commands, name) \/ Len(procs[p].commands) < MaxEntries
           /\ procs' = [procs EXCEPT ![p] =
                           [pc |-> "saving",
                            commands |-> add_command(procs[p].commands, name,
                                                     a[1], a[2], a[3])]]
    /\ UNCHANGED <<commands, trove_file, last, ret, wrote, settings>>

\* Hoard.remove_command up to the call of save_trove, for a stored name
P_Remove(p) ==
    /\ At(p, "loaded")
    /\ \E name \in ProcNames :
           /\ HasKey(procs[p].commands, name)
           /\ procs' = [procs EXCEPT ![p] =
                           [pc |-> "saving",
                            commands |-> remove_command(procs[p].commands, name)]]
    /\ UNCHANGED <<commands, trove_file, last, ret, wrote, settings>>

\* save_trove_file: open(path, 'w') creates the file or cuts it to nothing
P_Open(p) ==
    /\ At(p, "saving")
    /\ trove_file' = Torn(0)
    /\ procs' = [procs EXCEPT ![p].pc = "writing"]
    /\ UNCHANGED <<commands, last, ret, wrote, settings>>

\* save_trove_file: json.dump and the close of the file.  The text is
\* buffered and written at the close, from offset 0 of the file as it is
\* then: characters beyond the end of the text stay.  The invocation ends.
P_Write(p) ==
    /\ At(p, "writing")
    /\ LET doc == Dumps(PyDict(procs[p].commands))
       IN  /\ trove_file' = IF FileLen(trove_file) <= TextLen(doc, 0)
                            THEN JsonFile(doc)
                            ELSE Torn(FileLen(trove_file))
           /\ last' = Did("save", PyInt(p), PyDict(procs[p].commands), "saved")
    /\ procs' = [procs EXCEPT ![p] = [pc |-> "start", commands |-> <<>>]]
    /\ wrote' = TRUE
    /\ UNCHANGED <<commands, ret, settings>>

\* the invocation is killed between the open and the close
P_Crash(p) ==
    /\ At(p, "writing")
    /\ last' = Did("save", PyInt(p), PyDict(procs[p].commands), "killed")
    /\ procs' = [procs EXCEPT ![p] = [pc |-> "start", commands |-> <<>>]]
    /\ wrote' = FALSE
    /\ UNCHANGED <<commands, trove_file, ret, settings>>

InitProc ==
    /\ commands = <<>>
    /\ trove_file = Absent
    /\ last = [op |-> "init", name |-> PyNone, arg |-> PyNone, out |-> "none"]
    /\ ret = PyNone
    /\ wrote = FALSE
    /\ config_file = Absent
    /\ parameter_token = PyNone
    /\ procs = [p \in Procs |-> [pc |-> "start", commands |-> <<>>]]

NextProc ==
    \E p \in Procs :
        \/ P_Load(p)
        \/ P_New(p)
        \/ P_Remove(p)
        \/ P_Open(p)
        \/ P_Write(p)
        \/ P_Crash(p)

SpecProc == InitProc /\ [][NextProc]_vars

(***************************************************************************)
(* Claims                                                                  *)
(***************************************************************************)
Field(e, k) == DictGet(e.kv, PyStr(k))

\* the operation that led to this state changed the mapping and returned
\* normally
Mutated ==
    \/ last.op = "new" /\ last.out = "added"
    \/ last.op = "remove" /\ last.out = "removed"
    \/ last.op = "remove_namespace" /\ last.out = "removed_namespace"
    \/ last.op = "edit" /\ last.out = "updated"
    \/ last.op = "import" /\ last.out = "imported"

\* C1: when a mutating operation (new, remove of a present name,
\* remove-namespace, edit with a parsable result, successful import) has
\* returned, the store file is the serialization of the whole in-memory
\* mapping: the save has happened, in full, before the return.  When every
\* name is a str, reading the file back gives the mapping itself.
C1_SavedInFull ==
    Mutated =>
        /\ trove_file = JsonFile(Dumps(PyDict(commands)))
        /\ (\A k \in Keys(commands) : k.t = "str") =>
               ReadJson(trove_file) = PyDict(commands)

\* a successful import into a store holding another entry has been saved
C1_Witness ==
    /\ last.op = "import" /\ last.out = "imported"
    /\ Len(commands) = 2
    /\ trove_file = JsonFile(Dumps(PyDict(commands)))

\* C2: after new(name, tags, command, description), get(name) returns an
\* entry with exactly those tags, command and description; new never fails,
\* under an existing name it replaces the entry, and the entries under the
\* other names are the same as before.
C2_AddThenGet ==
    [][last'.op = "new" =>
         LET e == get_command(commands', last'.name)
         IN  /\ last'.out = "added"
             /\ e.t = "dict"
             /\ Len(e.kv) = 3
             /\ Field(e, K_tags) = last'.arg.xs[1]
             /\ Field(e, K_command) = last'.arg.xs[2]
             /\ Field(e, K_description) = last'.arg.xs[3]
             /\ Keys(commands') = Keys(commands) \cup {last'.name}
             /\ \A k \in Keys(commands) \ {last'.name} :
                    get_command(commands', k) = get_command(commands, k)]_vars

\* new has replaced the entry of a name that was already in the store: the
\* name is not the last key, as a key added by new would be
C2_Witness ==
    /\ last.op = "new"
    /\ Len(commands) = 2
    /\ commands[1][1] = last.name
    /\ Field(commands[1][2], K_tags) = PyNone

\* C3: after remove(name), get(name) returns not-found; when the name was
\* not in the store, remove changes nothing and reports not-found instead of
\* raising; every entry under another name is left as it was.
C3_RemoveThenGet ==
    [][last'.op = "remove" =>
         /\ ~HasKey(commands', last'.name)
         /\ get_command(commands', last'.name) = PyNone
         /\ last'.out = IF HasKey(commands, last'.name) THEN "removed" ELSE "not_found"
         /\ ~HasKey(commands, last'.name) =>
                commands' = commands /\ trove_file' = trove_file
         /\ Keys(commands') = Keys(commands) \ {last'.name}
         /\ \A k \in Keys(commands') :
                get_command(commands', k) = get_command(commands, k)]_vars

\* remove has taken out the first of two entries and left the other one
C3_Witness ==
    /\ last.op = "remove" /\ last.out = "removed"
    /\ Len(commands) = 1
    /\ commands[1][1] # last.name
    /\ trove_file = JsonFile(Dumps(PyDict(commands)))
\* name is a str that starts with prefix
NameStartsWith(name, prefix) == name.t = "str" /\ StartsWith(name.s, prefix.s)

\* C4: remove-namespace(prefix) removes exactly the entries whose name
\* starts with prefix: afterwards no name starts with prefix, and the
\* entries whose name does not are all still there, unchanged and in the
\* same order.
C4_RemoveNamespaceExact ==
    [][last'.op = "remove_namespace" =>
         /\ \A k \in Keys(commands') : ~NameStartsWith(k, last'.name)
         /\ commands' =
              SelectSeq(commands, LAMBDA it : ~NameStartsWith(it[1], last'.name))]_vars

\* the tags of a record, as far as it has any
TagsOf(cmd) ==
    IF cmd.t = "dict" /\ Field(cmd, K_tags).t = "list" THEN Field(cmd, K_tags).xs
    ELSE <<>>

\* f, compared case-insensitively, is a substring of the name or of a tag
FilterMatches(f, name, cmd) ==
    \/ name.t = "str" /\ Contains(Lower(f.s), Lower(name.s))
    \/ \E i \in 1..Len(TagsOf(cmd)) :
          /\ TagsOf(cmd)[i].t = "str"
          /\ Contains(Lower(f.s), Lower(TagsOf(cmd)[i].s))

\* the items list is to return for a filter
Selected(kv, f) ==
    SelectSeq(kv, LAMBDA it : ~Truthy(f) \/ FilterMatches(f, it[1], it[2]))

\* rec is the list record of the item
IsRecordOf(rec, it) ==
    /\ rec.t = "dict"
    /\ Field(rec, K_name) = it[1]
    /\ \A k \in {K_tags, K_command, K_description} :
          Field(rec, k) = IF it[2].t = "dict" THEN Field(it[2], k) ELSE PyNone

\* C5: list with a non-empty filter returns exactly the entries for which
\* the filter, case-insensitively, is a substring of the name or of a tag;
\* with an empty or absent filter it returns every entry.
C5_FilterExact ==
    (last.op = "list" /\ ~last.arg.json_output /\ ~last.arg.simple_output) =>
        LET sel == Selected(commands, last.arg.filter_str)
        IN  /\ ret.t = "list"
            /\ Len(ret.xs) = Len(sel)
            /\ \A i \in 1..Len(sel) : IsRecordOf(ret.xs[i], sel[i])

\* C6: list returns the entries in the insertion order of the mapping, and
\* for every filter the filtered list is the unfiltered list with the
\* entries that do not match deleted.
C6_ListOrder ==
    \A f \in FilterArgs :
        LET all == list_commands(commands, PyNone, FALSE, FALSE)
            flt == list_commands(commands, f, FALSE, FALSE)
        IN  /\ all.t = "list"
            /\ flt.t = "list"
            /\ Len(all.xs) = Len(commands)
            /\ \A i \in 1..Len(commands) : IsRecordOf(all.xs[i], commands[i])
            /\ flt.xs = SelectSeq(all.xs, LAMBDA r :
                  \/ ~Truthy(f)
                  \/ FilterMatches(f, Field(r, K_name), r))

\* C7: exporting the store and importing the exported file into a fresh
\* empty store gives a mapping identical to the original.
C7_RoundTrip ==
    import_trove(<<>>, Absent, export_command(commands)).kv = commands

\* C8: import of a missing or unparsable file leaves the mapping and the
\* store file as they were and reports the failure.
C8_ImportFailure ==
    [][(last'.op = "import" /\ last'.arg \in {Absent, Garbage}) =>
         /\ commands' = commands
         /\ trove_file' = trove_file
         /\ last'.out = IF last'.arg = Absent THEN "file_not_found"
                        ELSE "invalid_json"]_vars

\* import of an unparsable file into a store that holds two entries
C8_Witness ==
    /\ last.op = "import" /\ last.arg = Garbage /\ last.out = "invalid_json"
    /\ Len(commands) = 2

\* C9: import is all-or-nothing for every content of the import file: when
\* it is over, the store is as before, or it holds the complete merge in
\* memory and in the store file.
C9_AllOrNothing ==
    [][last'.op = "import" =>
         \/ commands' = commands /\ trove_file' = trove_file
         \/ /\ last'.out = "imported"
            /\ trove_file' = JsonFile(Dumps(PyDict(commands')))]_vars

\* the records of an import file: the members of a JSON object, or the
\* pairs of a JSON array of pairs
RecordsOf(file) ==
    LET v == Loads(file.doc)
    IN  CASE v.t = "dict" -> v.kv
          [] v.t = "list" -> [i \in 1..Len(v.xs) |-> <<v.xs[i].xs[1], v.xs[i].xs[2]>>]
          [] OTHER -> <<>>

\* C10: a successful import gives every name of the import file its
\* imported entry (the last one, when the file names it twice), and leaves
\* the entries of the other names present and unchanged.
C10_ImportMerge ==
    [][(last'.op = "import" /\ last'.out = "imported") =>
         LET rs == RecordsOf(last'.arg)
         IN  /\ \A i \in 1..Len(rs) :
                   (\A j \in (i + 1)..Len(rs) : rs[j][1] # rs[i][1]) =>
                       /\ HasKey(commands', rs[i][1])
                       /\ get_command(commands', rs[i][1]) = rs[i][2]
             /\ Keys(commands') = Keys(commands) \cup Keys(rs)
             /\ \A k \in Keys(commands) \ Keys(rs) :
                   get_command(commands', k) = get_command(commands, k)]_vars

\* an import has replaced the first entry of the store and left the second
C10_Witness ==
    /\ last.op = "import" /\ last.out = "imported"
    /\ Len(commands) = 2
    /\ HasKey(RecordsOf(last.arg), commands[1][1])
    /\ ~HasKey(RecordsOf(last.arg), commands[2][1])
    /\ get_command(RecordsOf(last.arg), commands[1][1]) = commands[1][2]

\* a valid Entry: an object with tags (a sequence of strings), command and
\* description
ValidEntry(v) ==
    /\ v.t = "dict"
    /\ HasKey(v.kv, PyStr(K_tags))
    /\ HasKey(v.kv, PyStr(K_command))
    /\ HasKey(v.kv, PyStr(K_description))
    /\ Field(v, K_tags).t = "list"
    /\ \A i \in 1..Len(Field(v, K_tags).xs) : Field(v, K_tags).xs[i].t = "str"

\* C12: in every reachable state every record of the in-memory mapping, and
\* every record of the store file, is a valid Entry.
C12_ValidEntries ==
    /\ \A i \in 1..Len(commands) : ValidEntry(commands[i][2])
    /\ trove_file.f = "json" =>
           /\ Loads(trove_file.doc).t = "dict"
           /\ \A i \in 1..Len(Loads(trove_file.doc).kv) :
                  ValidEntry(Loads(trove_file.doc).kv[i][2])

\* C13: an edit of a stored name replaces the entry, and saves, only when
\* the scratch file parses as a record, which is at least a JSON object;
\* otherwise the mapping and the store file are as before, nothing is
\* written and the edit reports an error.
C13_EditOnlyValid ==
    [][(last'.op = "edit" /\ last'.out # "not_found") =>
         LET v == ReadJson(last'.arg)
         IN  IF ~IsRaised(v) /\ v.t = "dict"
             THEN /\ commands' = DictSet(commands, last'.name, v)
                  /\ last'.out = "updated"
             ELSE /\ commands' = commands
                  /\ trove_file' = trove_file
                  /\ ~wrote'
                  /\ last'.out = "error"]_vars

\* C14: pick of a stored name returns the command text of its entry; pick
\* returns the empty string and reports not-found exactly when the name is
\* not stored; pick changes neither the mapping nor the store file.
C14_Pick ==
    [][last'.op = "pick" =>
         /\ IF HasKey(commands, last'.name)
            THEN /\ last'.out = "picked"
                 /\ get_command(commands, last'.name).t = "dict"
                 /\ ret' = Field(get_command(commands, last'.name), K_command)
            ELSE /\ last'.out = "not_found"
                 /\ ret' = PyStr(<<>>)
         /\ commands' = commands
         /\ trove_file' = trove_file
         /\ ~wrote']_vars

\* C19 as stated: every call of remove, whether or not the name is stored,
\* writes the store file.
C19_RemoveAlwaysWrites ==
    last.op = "remove" => wrote

\* C19: a call of remove writes the store file exactly when the name was
\* stored; for a name that is not stored it reports not-found and leaves the
\* file alone.
C19_RemoveWritesWhenPresent ==
    [][last'.op = "remove" =>
         /\ wrote' <=> HasKey(commands, last'.name)
         /\ ~HasKey(commands, last'.name) =>
                /\ last'.out = "not_found"
                /\ trove_file' = trove_file
                /\ commands' = commands]_vars

\* remove of a name that is not stored, from a store holding other entries
\* that has a store file
C19_Witness ==
    /\ last.op = "remove" /\ last.out = "not_found"
    /\ ~wrote
    /\ Len(commands) > 0
    /\ trove_file.f = "json"

\* C20: info, list, pick, shell-config and export change neither the
\* in-memory mapping nor the store file, and write nothing to it; an export
\* that succeeds writes every record of the mapping, in order, to its file.
C20_ReadOnly ==
    [][last'.op \in {"info", "list", "pick", "shell-config", "export"} =>
         /\ commands' = commands
         /\ trove_file' = trove_file
         /\ ~wrote'
         /\ (last'.op = "export" /\ last'.out = "exported") =>
                /\ last'.arg.f = "json"
                /\ last'.arg.doc.j = "object"
                /\ Len(last'.arg.doc.ms) = Len(commands)
                /\ \A i \in 1..Len(commands) :
                       last'.arg.doc.ms[i] =
                           <<KeyText(commands[i][1]), Dumps(commands[i][2])>>]_vars

\* an export of a store that holds a record that is not an object, beside
\* another one
C20_Witness ==
    /\ last.op = "export" /\ last.out = "exported"
    /\ Len(commands) = 2
    /\ \E i \in 1..2 : commands[i][2].t # "dict"

\* the members of a settings file that holds a JSON object
SettingsOf(file) ==
    IF file.f = "json" /\ file.doc.j = "object" THEN Loads(file.doc).kv ELSE <<>>

\* C16: on a settings file that is absent or holds an object,
\* set_parameter_token leaves a settings file whose parameter_token is the
\* token and whose other keys are those of the file before, with their
\* values; the entry mapping and the store file are not changed.
C16_SetParameterToken ==
    [][(last'.op = "set-parameter-token"
            /\ (config_file.f = "absent"
                   \/ (config_file.f = "json" /\ config_file.doc.j = "object"))) =>
         /\ last'.out = "set"
         /\ config_file'.f = "json" /\ config_file'.doc.j = "object"
         /\ DictGet(SettingsOf(config_file'), PyStr(K_parameter_token)) = last'.arg
         /\ Keys(SettingsOf(config_file')) =
                Keys(SettingsOf(config_file)) \cup {PyStr(K_parameter_token)}
         /\ \A k \in Keys(SettingsOf(config_file)) \ {PyStr(K_parameter_token)} :
                DictGet(SettingsOf(config_file'), k) = DictGet(SettingsOf(config_file), k)
         /\ commands' = commands
         /\ trove_file' = trove_file
         /\ ~wrote']_vars

\* the token has been set in a settings file that holds another key, beside
\* a store that holds an entry
C16_Witness ==
    /\ last.op = "set-parameter-token" /\ last.out = "set"
    /\ HasKey(SettingsOf(config_file), PyStr(K_editor))
    /\ DictGet(SettingsOf(config_file), PyStr(K_parameter_token)) = last.arg
    /\ Len(commands) = 1

\* C11: load_trove_file returns a store whatever the store file holds: an
\* empty one when the file is absent, unparsable or holds a top-level value
\* that is not a mapping, and otherwise the one of the top-level records
\* whose value is an object.
C11_LoadTotal ==
    last.op = "load" =>
        /\ last.out # "crash_load_trove_file"
        /\ commands =
              IF trove_file.f = "json" /\ trove_file.doc.j = "object"
              THEN SelectSeq(Loads(trove_file.doc).kv, LAMBDA it : it[2].t = "dict")
              ELSE <<>>

\* C15: no invocation ends with an exception that leaves main: not in
\* load_trove, not in start, not when main prints what start returned.
C15_NoCrash ==
    last.out \notin {"crash_load_trove_file", "crash_load_config", "crash_strip"}

\* C17: a store file that is readable as a saved mapping stays readable, as
\* that mapping or as the one being saved, at every step of every save and
\* when the saving invocation is killed.
C17_SaveAtomic ==
    [][trove_file.f = "json" =>
         /\ trove_file'.f = "json"
         /\ \/ trove_file' = trove_file
            \/ \E p \in Procs : trove_file' = save_trove_file(procs[p].commands)]_vars

\* C18: when no invocation is between the open and the close of its save,
\* the store file is the complete mapping of the invocation that saved
\* last.
C18_LastSaveWins ==
    (last.op = "save" /\ last.out = "saved" /\ \A p \in Procs : ~At(p, "writing")) =>
        trove_file = save_trove_file(last.arg.kv)

====
